---- MODULE Spec2Model ----
(***************************************************************************)
(* The artifact emitter of the Fe command-line driver (src/src/main.rs):   *)
(* main, compile_and_write, write_compiled_module, write_output and        *)
(* verify_nonexistent_or_empty, run against a file system.                 *)
(*   Spec       one run of compile_and_write, as main calls it             *)
(*   SpecFair   the same under weak fairness of the program's steps        *)
(*   SpecMain   one run of main, from the parsed command line on           *)
(*   SpecRerun  the process run again on the tree the last run left        *)
(***************************************************************************)
EXTENDS Integers, Sequences, FiniteSets, TLC

VARIABLES
    matches,      \* the command line: emit tokens, --overwrite, --optimize
    optimize,     \* the optimize argument of compile_and_write
    request,      \* the arguments fe_compiler::compile was called with
    history,      \* the results of the earlier runs of the process, oldest first
    faults,       \* this run may meet I/O errors of the environment
    src,          \* the contracts the input source file declares
    solc,         \* the build has the "solc-backend" feature
    targets,      \* targets: &[CompilationTarget], in command-line order
    overwrite,    \* the overwrite flag
    fs,           \* the file system: path -> node
    fs0,          \* the file system when the process started
    module,       \* the CompiledModule, once compiled
    withBytecode, \* with_bytecode of compile_and_write
    warned,       \* the bytecode advisory was printed
    remaining,    \* contract names module.contracts.drain() has not yielded yet
    cur,          \* name of the contract of the current loop iteration
    call,         \* the active write_output call: path, content, return point
    pc,           \* position in the program
    result,       \* what compile_and_write returned
    log           \* the file-system steps taken so far, oldest first

vars == <<matches, optimize, request, history, faults, src, solc, targets, overwrite, fs, fs0, module, withBytecode, warned,
          remaining, cur, call, pc, result, log>>

----------------------------------------------------------------------------
(* Bounds *)

MaxTargets == 2       \* longest target list
MaxContracts == 2     \* most contracts in a module

----------------------------------------------------------------------------
(* Targets *)

CompilationTarget == {"Abi", "Ast", "Bytecode", "Tokens", "Yul"}

TargetLists == UNION {[1..n -> CompilationTarget] : n \in 1..MaxTargets}

\* a membership test that looks at the first target only
ContainsFirst(ts, k) == ts[1] = k

\* <[T]>::contains, as the emitter uses it on the target slice
Contains(ts, k) == \E i \in 1..Len(ts) : ts[i] = k

TargetSet(ts) == {ts[i] : i \in 1..Len(ts)}

----------------------------------------------------------------------------
(* Texts are sequences of characters (a name stands for its characters).   *)

ContractNames == <<"Token", "Wallet", "Vault", "Bank">>

Min(a, b) == IF a < b THEN a ELSE b

NamesUpTo(n) == {ContractNames[i] : i \in 1..Min(n, Len(ContractNames))}

AllNames == NamesUpTo(MaxContracts)

None == <<>>
Some(x) == <<x>>

FeAst == <<"a", "s", "t">>
FeTokens == <<"t", "o", "k">>
JsonAbi(c) == <<"[", c, "]">>
YulIr(c) == <<c, "{", "}">>
Bytecode(c) == <<"6", "0", c>>
OldText == <<"o", "l", "d", "-", "o", "l", "d", "-", "o", "l", "d", "!">>

\* fe_compiler::compile: the module of a source declaring the contracts cs
CompiledModule(cs, with_bytecode) ==
    [fe_ast |-> FeAst,
     fe_tokens |-> FeTokens,
     contracts |-> [c \in cs |->
         [json_abi |-> JsonAbi(c),
          yul |-> YulIr(c),
          bytecode |-> IF solc /\ with_bytecode THEN Some(Bytecode(c)) ELSE None]]]

NoModule == [fe_ast |-> <<>>, fe_tokens |-> <<>>, contracts |-> <<>>]

Indent == 4

RECURSIVE Spaces(_)
Spaces(n) == IF n <= 0 THEN <<>> ELSE <<" ">> \o Spaces(n - 1)

RECURSIVE PrettyFrom(_, _, _)
PrettyFrom(s, indent, lvl) ==
    IF s = <<>> THEN <<>>
    ELSE LET c == Head(s) IN
         IF c = "{"
         THEN <<c, "\n">> \o Spaces((lvl + 1) * indent)
                  \o PrettyFrom(Tail(s), indent, lvl + 1)
         ELSE IF c = "}"
         THEN <<"\n">> \o Spaces((lvl - 1) * indent) \o <<c>>
                  \o PrettyFrom(Tail(s), indent, lvl - 1)
         ELSE <<c>> \o PrettyFrom(Tail(s), indent, lvl)

\* _utils::pretty_curly_print
pretty_curly_print(s, indent) == PrettyFrom(s, indent, 0)

----------------------------------------------------------------------------
(* Paths and the file system *)

Build == <<"build">>
OutDir == <<"build", "out">>

AstPath == Append(OutDir, "module.ast")
\* the Tokens artifact joined to the name of the Ast artifact
TokensPathAsAst == Append(OutDir, "module.ast")
TokensPath == Append(OutDir, "module.tokens")
NotesPath == Append(OutDir, "notes.txt")

ContractDir(name) == Append(OutDir, name)
\* the ABI file given the name of the Yul file
AbiFileNameAsYul(name) == name \o "_ir.yul"
AbiFileName(name) == name \o "_abi.json"
\* the Yul file given the name of the ABI file
YulFileNameAsAbi(name) == name \o "_abi.json"
YulFileName(name) == name \o "_ir.yul"
BinFileName(name) == name \o ".bin"
AbiPath(name) == Append(ContractDir(name), AbiFileName(name))
YulPath(name) == Append(ContractDir(name), YulFileName(name))
BinPath(name) == Append(ContractDir(name), BinFileName(name))

Paths ==
    {Build, OutDir, AstPath, TokensPath, NotesPath}
    \cup UNION {{ContractDir(c), Append(ContractDir(c), c \o "_abi.json"),
                 Append(ContractDir(c), c \o "_ir.yul"),
                 Append(ContractDir(c), c \o ".bin")} : c \in AllNames}

Absent == [kind |-> "absent"]
DirNode == [kind |-> "dir"]
File(content) == [kind |-> "file", content |-> content]

Parent(p) == SubSeq(p, 1, Len(p) - 1)
Ancestors(p) == {SubSeq(p, 1, i) : i \in 1..Len(p)}   \* p included
Kind(f, p) == IF p = <<>> THEN "dir" ELSE f[p].kind
Under(d, p) == Len(p) > Len(d) /\ SubSeq(p, 1, Len(d)) = d

\* an emptiness test that counts regular files only
HasFileEntry(f, d) == \E p \in Paths : Parent(p) = d /\ f[p].kind = "file"

\* Path::is_file, Path::exists, and whether a directory has an entry
IsFile(f, p) == Kind(f, p) = "file"
Exists(f, p) == Kind(f, p) # "absent"
HasEntry(f, d) == \E p \in Paths : Parent(p) = d /\ Exists(f, p)

\* a tree holding exactly the given entries
Tree(entries) ==
    [p \in Paths |-> IF \E e \in entries : e[1] = p
                     THEN (CHOOSE e \in entries : e[1] = p)[2]
                     ELSE Absent]

InDir(entries) == Tree({<<Build, DirNode>>, <<OutDir, DirNode>>} \cup entries)

First == ContractNames[1]

\* the file systems a run may start on
InitialTrees ==
    {Tree({}),
     Tree({<<Build, File(OldText)>>}),
     Tree({<<Build, DirNode>>}),
     Tree({<<Build, DirNode>>, <<OutDir, File(OldText)>>}),
     InDir({}),
     InDir({<<NotesPath, File(OldText)>>}),
     InDir({<<NotesPath, File(OldText)>>, <<AstPath, File(OldText)>>}),
     InDir({<<ContractDir(First), DirNode>>}),
     InDir({<<ContractDir(First), File(OldText)>>}),
     InDir({<<TokensPath, DirNode>>}),
     InDir({<<ContractDir(First), DirNode>>,
            <<AbiPath(First), File(OldText)>>,
            <<YulPath(First), File(OldText)>>}),
     InDir({<<AstPath, File(OldText)>>, <<TokensPath, File(OldText)>>,
            <<ContractDir(First), DirNode>>,
            <<AbiPath(First), File(OldText)>>,
            <<BinPath(First), File(OldText)>>})}

----------------------------------------------------------------------------
(* File-system operations: the set of outcomes [ok, fs] each may have.     *)
(* Every operation whose Result the program propagates with `?` may fail    *)
(* with an I/O error; the bool probes is_file and exists, which have no     *)
(* error path in the program, report the node as it is.  create_dir_all may *)
(* fail after creating some of the missing ancestors, write_all after       *)
(* writing a proper prefix of the content.                                  *)

\* the directories of p's chain down to depth n are created where missing
MkDirs(f, p, n) ==
    [q \in Paths |-> IF q \in Ancestors(p) /\ f[q].kind = "absent" /\ Len(q) <= n
                     THEN DirNode ELSE f[q]]

\* fs::create_dir in its place: no ancestors, and an existing path is an error
CreateDirOnly(f, p) ==
    IF Exists(f, p) \/ Kind(f, Parent(p)) # "dir"
    THEN {[ok |-> FALSE, fs |-> f]}
    ELSE {[ok |-> TRUE, fs |-> [f EXCEPT ![p] = DirNode]],
          [ok |-> FALSE, fs |-> f]}

\* fs::create_dir_all
CreateDirAll(f, p) ==
    LET missing == {q \in Ancestors(p) : f[q].kind = "absent"}
        depths == {Len(q) : q \in missing}
        top == CHOOSE d \in depths : \A e \in depths : d <= e
    IN  IF \E q \in Ancestors(p) : f[q].kind = "file"
        THEN {[ok |-> FALSE, fs |-> f]}
        ELSE IF missing = {}
        THEN {[ok |-> TRUE, fs |-> f]}
        ELSE {[ok |-> TRUE, fs |-> MkDirs(f, p, Len(p))]}
             \cup {[ok |-> FALSE, fs |-> MkDirs(f, p, n)] : n \in (top - 1)..(Len(p) - 1)}

\* the file opened without .truncate(true): existing content is kept
OpenNoTruncate(f, p) ==
    IF Kind(f, p) = "dir" \/ Kind(f, Parent(p)) # "dir"
    THEN {[ok |-> FALSE, fs |-> f]}
    ELSE {[ok |-> TRUE,
           fs |-> [f EXCEPT ![p] = IF f[p].kind = "file" THEN f[p] ELSE File(<<>>)]],
          [ok |-> FALSE, fs |-> f]}

\* OpenOptions::new().write(true).create(true).truncate(true).open(path)
OpenTruncate(f, p) ==
    IF Kind(f, p) = "dir" \/ Kind(f, Parent(p)) # "dir"
    THEN {[ok |-> FALSE, fs |-> f]}
    ELSE {[ok |-> TRUE, fs |-> [f EXCEPT ![p] = File(<<>>)]],
          [ok |-> FALSE, fs |-> f]}

\* bytes written from offset 0 over what the file holds
Over(old, new) == new \o SubSeq(old, Len(new) + 1, Len(old))

\* file.write_all(content) on the file just opened
WriteAll(f, p, content) ==
    LET old == IF f[p].kind = "file" THEN f[p].content ELSE <<>> IN
    {[ok |-> TRUE, fs |-> [f EXCEPT ![p] = File(Over(old, content))]]}
    \cup {[ok |-> FALSE, fs |-> [f EXCEPT ![p] = File(Over(old, SubSeq(content, 1, n)))]]
            : n \in 0..(Len(content) - 1)}

\* the outcomes left when the environment injects no I/O error: a failure
\* remains only where the operation cannot succeed
Env(outcomes) ==
    IF faults \/ \A o \in outcomes : ~o.ok THEN outcomes
    ELSE {o \in outcomes : o.ok}

----------------------------------------------------------------------------
(* The command line *)

\* .possible_values(&["abi", "bytecode", "ast", "tokens", "yul"])
PossibleValues == {"abi", "bytecode", "ast", "tokens", "yul"}

\* tokens clap is given that are no possible value
OtherTokens == {"wasm", "ABI"}

EmitLists == UNION {[1..n -> PossibleValues \cup OtherTokens] : n \in 1..MaxTargets}

\* arg_enum!'s FromStr for a possible value
ParseTarget(tok) ==
    CASE tok = "abi" -> "Abi"
      [] tok = "ast" -> "Ast"
      [] tok = "bytecode" -> "Bytecode"
      [] tok = "tokens" -> "Tokens"
      [] tok = "yul" -> "Yul"

TokenOf(kind) == CHOOSE tok \in PossibleValues : ParseTarget(tok) = kind

\* unknown tokens dropped, the others kept
ParseEmitSkippingUnknown(toks) ==
    LET known == SelectSeq(toks, LAMBDA t : t \in PossibleValues)
    IN  [ok |-> TRUE, targets |-> [i \in 1..Len(known) |-> ParseTarget(known[i])]]

\* get_matches() and values_t!(matches.values_of("emit"), CompilationTarget)
ParseEmit(toks) ==
    IF \A i \in 1..Len(toks) : toks[i] \in PossibleValues
    THEN [ok |-> TRUE, targets |-> [i \in 1..Len(toks) |-> ParseTarget(toks[i])]]
    ELSE [ok |-> FALSE, targets |-> <<>>]

\* the optimize local read from its own flag
OptimizeFromOptimizeFlag(m) == m.optimize

\* main: let optimize = matches.is_present("overwrite")
OptimizeArg(m) == m.overwrite

NoRequest == [with_bytecode |-> FALSE, optimize |-> FALSE, none |-> TRUE]

----------------------------------------------------------------------------
(* The program *)

NoCall == [path |-> <<>>, content |-> <<>>, ret |-> ""]

Step(op, path, ok) == [op |-> op, path |-> path, ok |-> ok]

\* the error dropped and the run carried on
TryIgnoringError(ok, err, next) == pc' = next /\ result' = result

\* the `?` operator: on Err return it at once, on Ok go on
Try(ok, err, next) ==
    IF ok THEN pc' = next /\ result' = result
    ELSE pc' = "failed" /\ result' = err

\* the state compile_and_write starts in, whatever it is called with
Started ==
    /\ request = NoRequest
    /\ history = <<>>
    /\ faults = TRUE
    /\ src \in {NamesUpTo(n) : n \in 0..MaxContracts}
    /\ solc \in BOOLEAN
    /\ fs0 = fs
    /\ module = NoModule
    /\ withBytecode = FALSE
    /\ warned = FALSE
    /\ remaining = {}
    /\ cur = ""
    /\ call = NoCall
    /\ result = "none"
    /\ log = <<>>

\* compile_and_write as main calls it (--optimize not given)
Init ==
    /\ targets \in TargetLists
    /\ overwrite \in BOOLEAN
    /\ matches = [emit |-> [i \in 1..Len(targets) |-> TokenOf(targets[i])],
                  overwrite |-> overwrite, optimize |-> FALSE]
    /\ optimize = OptimizeArg(matches)
    /\ fs \in InitialTrees
    /\ pc = "read_src"
    /\ Started

\* whether reading or compiling the source may succeed or fail
Oks == IF faults THEN BOOLEAN ELSE {TRUE}

\* compile_and_write: fs::read_to_string(src_file), with_bytecode, the advisory
ReadSource ==
    /\ pc = "read_src"
    /\ \E ok \in Oks :
        /\ Try(ok, "IoFailure", "compile")
        /\ withBytecode' = (ok /\ Contains(targets, "Bytecode"))
        /\ warned' = (ok /\ ~solc /\ Contains(targets, "Bytecode"))
    /\ UNCHANGED <<matches, optimize, request, history, faults, src, solc, targets,
                   overwrite, fs, fs0, module, remaining, cur,
                   call, log>>

\* compile_and_write: fe_compiler::compile(&src, with_bytecode, optimize)
Compile ==
    /\ pc = "compile"
    /\ \E ok \in Oks :
        /\ Try(ok, "CompilationFailed", "is_file")
        /\ module' = IF ok THEN CompiledModule(src, withBytecode) ELSE module
        /\ remaining' = IF ok THEN src ELSE remaining
    /\ request' = [with_bytecode |-> withBytecode, optimize |-> optimize]
    /\ UNCHANGED <<matches, optimize, history, faults, src, solc, targets,
                   overwrite, fs, fs0, withBytecode, warned, cur,
                   call, log>>

\* the file check made only when overwrite is off
DestinationIsFileUnlessOverwrite == ~overwrite /\ IsFile(fs, OutDir)

\* write_compiled_module: `if output_dir.is_file()`
DestinationIsFile == IsFile(fs, OutDir)

\* write_compiled_module: the destination must not be a regular file
CheckIsFile ==
    /\ pc = "is_file"
    /\ LET ok == ~DestinationIsFile IN
        /\ Try(ok, "DestinationIsFile", "verify")
        /\ log' = Append(log, Step("is_file", OutDir, ok))
    /\ UNCHANGED <<matches, optimize, request, history, faults, src, solc, targets,
                   overwrite, fs, fs0, module, withBytecode,
                   warned, remaining, cur, call>>

\* verify_nonexistent_or_empty: "ok", "io" (read_dir failed) or "not_empty"
VerifyNonexistentOrEmpty(f, dir) ==
    IF ~Exists(f, dir) THEN {"ok"}
    ELSE IF IsFile(f, dir) THEN {"io"}
    ELSE (IF faults THEN {"io"} ELSE {})
         \cup {IF HasEntry(f, dir) THEN "not_empty" ELSE "ok"}

\* the flag read the wrong way round
MustVerifyInverted == overwrite

\* write_compiled_module: `if !overwrite`
MustVerify == ~overwrite

\* write_compiled_module: if !overwrite { verify_nonexistent_or_empty(output_dir)?; }
CheckEmpty ==
    /\ pc = "verify"
    /\ IF MustVerify
       THEN \E v \in VerifyNonexistentOrEmpty(fs, OutDir) :
               /\ Try(v = "ok",
                      IF v = "io" THEN "IoFailure" ELSE "DestinationNotEmpty",
                      "create_out")
               /\ log' = Append(log, Step("verify", OutDir, v = "ok"))
       ELSE /\ pc' = "create_out"
            /\ UNCHANGED <<result, log>>
    /\ UNCHANGED <<matches, optimize, request, history, faults, src, solc, targets,
                   overwrite, fs, fs0, module, withBytecode,
                   warned, remaining, cur, call>>

\* write_compiled_module: fs::create_dir_all(output_dir)
CreateOutputDir ==
    /\ pc = "create_out"
    /\ \E o \in Env(CreateDirAll(fs, OutDir)) :
        /\ fs' = o.fs
        /\ Try(o.ok, "IoFailure", "ast")
        /\ log' = Append(log, Step("create_dir_all", OutDir, o.ok))
    /\ UNCHANGED <<matches, optimize, request, history, faults, src, solc, targets,
                   overwrite, fs0, module, withBytecode, warned,
                   remaining, cur, call>>

\* a call of write_output(path, content) that returns to ret
CallWriteOutput(path, content, ret) ==
    /\ call' = [path |-> path, content |-> content, ret |-> ret]
    /\ pc' = "open"

\* an `if targets.contains(kind) { write_output(path, content)?; }` statement
EmitIf(wanted, path, content, ret) ==
    /\ IF wanted THEN CallWriteOutput(path, content, ret)
       ELSE pc' = ret /\ call' = call
    /\ UNCHANGED <<matches, optimize, request, history, faults, src, solc, targets,
                   overwrite, fs, fs0, module, withBytecode,
                   warned, remaining, cur, result, log>>

WantsAst == Contains(targets, "Ast")
\* the Tokens statement testing the Ast target
WantsTokensTestsAst == Contains(targets, "Ast")
WantsTokens == Contains(targets, "Tokens")
WantsAbi == Contains(targets, "Abi")
WantsYul == Contains(targets, "Yul")
\* the Bytecode statement without its cfg attribute
WantsBytecodeNoCfg == Contains(targets, "Bytecode")
\* #[cfg(feature = "solc-backend")] if targets.contains(&Bytecode)
WantsBytecode == solc /\ Contains(targets, "Bytecode")

EmitAst ==
    /\ pc = "ast"
    /\ EmitIf(WantsAst, AstPath, module.fe_ast, "tokens")

EmitTokens ==
    /\ pc = "tokens"
    /\ EmitIf(WantsTokens, TokensPath, module.fe_tokens, "drain")

\* a drain that leaves the yielded entry in the map
DrainedNothing(rem, name) == rem

\* module.contracts.drain(): the yielded entry is removed from the map
Drained(rem, name) == rem \ {name}

\* the loop head: the drain yields a contract, and its directory is created
NextContract ==
    /\ pc = "drain"
    /\ \E name \in remaining :
        /\ remaining' = Drained(remaining, name)
        /\ cur' = name
        /\ \E o \in Env(CreateDirAll(fs, ContractDir(name))) :
            /\ fs' = o.fs
            /\ Try(o.ok, "IoFailure", "abi")
            /\ log' = Append(log, Step("create_dir_all", ContractDir(name), o.ok))
    /\ UNCHANGED <<matches, optimize, request, history, faults, src, solc, targets,
                   overwrite, fs0, module, withBytecode, warned,
                   call>>

\* the ABI file given the Yul text
AbiBodyFromYul(name) == module.contracts[name].yul

\* the bodies handed to write_output for a contract
AbiBody(name) == module.contracts[name].json_abi
YulBody(name) == pretty_curly_print(module.contracts[name].yul, Indent)
BytecodeBody(name) ==
    LET b == module.contracts[name].bytecode IN IF b = None THEN <<>> ELSE b[1]

EmitAbi ==
    /\ pc = "abi"
    /\ EmitIf(WantsAbi, AbiPath(cur), AbiBody(cur), "yul")

EmitYul ==
    /\ pc = "yul"
    /\ EmitIf(WantsYul, YulPath(cur), YulBody(cur), "bin")

EmitBytecode ==
    /\ pc = "bin"
    /\ EmitIf(WantsBytecode, BinPath(cur), BytecodeBody(cur), "drain")

\* the drain is exhausted: Ok(())
Finish ==
    /\ pc = "drain"
    /\ remaining = {}
    /\ pc' = "done"
    /\ result' = "Ok"
    /\ UNCHANGED <<matches, optimize, request, history, faults, src, solc, targets,
                   overwrite, fs, fs0, module, withBytecode,
                   warned, remaining, cur, call, log>>

\* write_output: open the file, creating or truncating it
WriteOutputOpen ==
    /\ pc = "open"
    /\ \E o \in Env(OpenTruncate(fs, call.path)) :
        /\ fs' = o.fs
        /\ Try(o.ok, "IoFailure", "write_all")
        /\ log' = Append(log, Step("open", call.path, o.ok))
    /\ UNCHANGED <<matches, optimize, request, history, faults, src, solc, targets,
                   overwrite, fs0, module, withBytecode, warned,
                   remaining, cur, call>>

\* write_output: file.write_all(content.as_bytes()), then Ok(())
WriteOutputWriteAll ==
    /\ pc = "write_all"
    /\ \E o \in Env(WriteAll(fs, call.path, call.content)) :
        /\ fs' = o.fs
        /\ Try(o.ok, "IoFailure", call.ret)
        /\ log' = Append(log, Step("write_all", call.path, o.ok))
    /\ call' = NoCall
    /\ UNCHANGED <<matches, optimize, request, history, faults, src, solc, targets,
                   overwrite, fs0, module, withBytecode, warned,
                   remaining, cur>>

Next ==
    \/ ReadSource
    \/ Compile
    \/ CheckIsFile
    \/ CheckEmpty
    \/ CreateOutputDir
    \/ EmitAst
    \/ EmitTokens
    \/ NextContract
    \/ EmitAbi
    \/ EmitYul
    \/ EmitBytecode
    \/ Finish
    \/ WriteOutputOpen
    \/ WriteOutputWriteAll

Spec == Init /\ [][Next]_vars

\* the process is sequential and is not suspended forever: whenever it has
\* a next step it eventually takes one
SpecFair == Spec /\ WF_vars(Next)

----------------------------------------------------------------------------
(* main, from the command line to the call of compile_and_write *)

\* the trees main is run on
MainTrees ==
    {Tree({}),
     InDir({}),
     InDir({<<NotesPath, File(OldText)>>, <<AstPath, File(OldText)>>})}

InitMain ==
    /\ matches \in [emit : EmitLists, overwrite : BOOLEAN, optimize : BOOLEAN]
    /\ targets = <<>>
    /\ overwrite = FALSE
    /\ optimize = FALSE
    /\ fs \in MainTrees
    /\ pc = "main"
    /\ Started

\* main: an emit value that is no possible value ends the process in
\* get_matches(); otherwise the locals are read from the matches and
\* compile_and_write is called
Main ==
    /\ pc = "main"
    /\ LET parsed == ParseEmit(matches.emit)
       IN  IF parsed.ok
           THEN /\ targets' = parsed.targets
                /\ overwrite' = matches.overwrite
                /\ optimize' = OptimizeArg(matches)
                /\ pc' = "read_src"
                /\ result' = result
           ELSE /\ pc' = "failed"
                /\ result' = "UnknownTarget"
                /\ UNCHANGED <<targets, overwrite, optimize>>
    /\ UNCHANGED <<matches, request, history, faults, src, solc, fs, fs0, module,
                   withBytecode, warned, remaining, cur, call, log>>

NextMain ==
    \/ Main
    \/ Next

SpecMain == InitMain /\ [][NextMain]_vars

----------------------------------------------------------------------------
(* The process run again with the same source and targets, on the tree the *)
(* last run left behind.                                                   *)

MaxRuns == 3

\* one target list for each set of at most MaxTargets targets
RerunTargetLists ==
    {l \in TargetLists :
        \A i, j \in 1..Len(l) : i < j => TokenOf(l[i]) \o "," \o TokenOf(l[j])
            \in {"abi,ast", "abi,bytecode", "abi,tokens", "abi,yul", "ast,bytecode",
                 "ast,tokens", "ast,yul", "bytecode,tokens", "bytecode,yul",
                 "tokens,yul"}}

\* the trees the first of the runs starts on
RerunTrees ==
    {Tree({}),
     Tree({<<Build, DirNode>>, <<OutDir, File(OldText)>>}),
     InDir({<<NotesPath, File(OldText)>>, <<AstPath, File(OldText)>>})}

InitRerun ==
    /\ targets \in RerunTargetLists
    /\ overwrite \in BOOLEAN
    /\ matches = [emit |-> [i \in 1..Len(targets) |-> TokenOf(targets[i])],
                  overwrite |-> overwrite, optimize |-> FALSE]
    /\ optimize = OptimizeArg(matches)
    /\ fs \in RerunTrees
    /\ pc = "read_src"
    /\ Started

\* main is started again once a run that reached write_compiled_module has
\* ended: the locals of the last run are gone, the file system is what it
\* left; --overwrite is chosen anew.  A run with --overwrite is a recovery
\* run, taken when the environment injects no I/O error; a run without it
\* meets the environment of the first run
Rerun ==
    /\ pc \in {"done", "failed"}
    /\ module # NoModule
    /\ Len(history) + 1 < MaxRuns
    /\ history' = Append(history, result)
    /\ \E ow \in BOOLEAN :
        /\ overwrite' = ow
        /\ faults' = ~ow
        /\ matches' = [matches EXCEPT !.overwrite = ow]
    /\ optimize' = OptimizeArg(matches')
    /\ request' = NoRequest
    /\ module' = NoModule
    /\ withBytecode' = FALSE
    /\ warned' = FALSE
    /\ remaining' = {}
    /\ cur' = ""
    /\ call' = NoCall
    /\ result' = "none"
    /\ log' = <<>>
    /\ pc' = "read_src"
    /\ UNCHANGED <<src, solc, targets, fs, fs0>>

NextRerun ==
    \/ Rerun
    \/ Next

SpecRerun == InitRerun /\ [][NextRerun]_vars

----------------------------------------------------------------------------
(* Properties.  The expected layout is written out here from the output    *)
(* directory alone, independently of the path definitions of the program.  *)

Requested == TargetSet(targets)

\* write_compiled_module has been called (compilation succeeded)
Entered == module # NoModule

Last(s) == s[Len(s)]

XAst == OutDir \o <<"module.ast">>
XTokens == OutDir \o <<"module.tokens">>
XDir(c) == OutDir \o <<c>>
XAbi(c) == OutDir \o <<c, c \o "_abi.json">>
XYul(c) == OutDir \o <<c, c \o "_ir.yul">>
XBin(c) == OutDir \o <<c, c \o ".bin">>

\* the artifact files the requested kinds call for
ExpectedFiles ==
    (IF "Ast" \in Requested THEN {XAst} ELSE {})
    \cup (IF "Tokens" \in Requested THEN {XTokens} ELSE {})
    \cup (IF "Abi" \in Requested THEN {XAbi(c) : c \in src} ELSE {})
    \cup (IF "Yul" \in Requested THEN {XYul(c) : c \in src} ELSE {})
    \cup (IF "Bytecode" \in Requested /\ solc
          THEN {XBin(c) : c \in {d \in src : module.contracts[d].bytecode # None}}
          ELSE {})

Opened == {log[i].path : i \in {j \in 1..Len(log) : log[j].op = "open"}}

NonEmptyDir(f, d) == Kind(f, d) = "dir" /\ HasEntry(f, d)

\* C1: when the destination exists as a regular file, emission fails with
\* DestinationIsFile whatever the module, the targets and the overwrite flag,
\* and the file system stays exactly as it was.
C1_FileDestinationRefused ==
    (Entered /\ IsFile(fs0, OutDir)) =>
        /\ fs = fs0
        /\ pc \in {"is_file", "failed"}
        /\ pc = "failed" => result = "DestinationIsFile"

C1_Witness ==
    /\ IsFile(fs0, OutDir)
    /\ overwrite
    /\ pc = "failed"
    /\ result = "DestinationIsFile"

\* C2 as stated: a non-empty destination directory with overwrite off always
\* ends in DestinationNotEmpty with the file system unchanged.
C2_Original ==
    (Entered /\ ~overwrite /\ NonEmptyDir(fs0, OutDir)) =>
        /\ fs = fs0
        /\ pc \in {"is_file", "verify", "failed"}
        /\ pc = "failed" => result = "DestinationNotEmpty"

\* C2 (amended): a non-empty destination directory with overwrite off makes
\* emission fail in the guard, with DestinationNotEmpty or, when the directory
\* cannot be listed, with that I/O error; in both cases nothing is written.
C2_NonEmptyRefused ==
    (Entered /\ ~overwrite /\ NonEmptyDir(fs0, OutDir)) =>
        /\ fs = fs0
        /\ pc \in {"is_file", "verify", "failed"}
        /\ pc = "failed" =>
            /\ result \in {"DestinationNotEmpty", "IoFailure"}
            /\ Last(log) = Step("verify", OutDir, FALSE)

C2_Witness ==
    /\ ~overwrite
    /\ NonEmptyDir(fs0, OutDir)
    /\ pc = "failed"
    /\ result = "DestinationNotEmpty"

\* C3: with overwrite on, a non-empty destination directory is not checked
\* for emptiness and emission goes on; at every point of the run, every file
\* that was there before and is not an artifact path of this run is
\* unchanged, and only artifact paths of the requested kinds are opened.
C3_OverwriteKeepsOtherFiles ==
    (Entered /\ overwrite /\ NonEmptyDir(fs0, OutDir)) =>
        /\ \A i \in 1..Len(log) : log[i].op # "verify"
        /\ result \notin {"DestinationNotEmpty", "DestinationIsFile"}
        /\ LET expected == ExpectedFiles
               opened == Opened
           IN  /\ opened \subseteq expected
               /\ \A p \in Paths :
                     (IsFile(fs0, p) /\ (p \notin expected \/ p \notin opened))
                         => fs[p] = fs0[p]

C3_Witness ==
    /\ overwrite
    /\ NonEmptyDir(fs0, OutDir)
    /\ pc = "done"
    /\ Opened # {}
    /\ \E p \in Paths : IsFile(fs0, p) /\ p \notin Opened /\ fs[p] = fs0[p]
    /\ \E p \in Paths : IsFile(fs0, p) /\ p \in Opened

\* C4 as stated: after a successful emission module.ast is present iff Ast
\* is requested and module.tokens iff Tokens is requested, whatever the
\* destination held before.
C4_Original ==
    pc = "done" =>
        /\ Exists(fs, XAst) <=> "Ast" \in Requested
        /\ Exists(fs, XTokens) <=> "Tokens" \in Requested

\* C4 (amended): after a successful emission module.ast is present iff Ast is
\* requested or it was already there before the run, and module.tokens iff
\* Tokens is requested or it was already there (into a fresh directory:
\* iff requested).
C4_ModuleArtifactsPresent ==
    pc = "done" =>
        /\ Exists(fs, XAst) <=> ("Ast" \in Requested \/ Exists(fs0, XAst))
        /\ Exists(fs, XTokens) <=> ("Tokens" \in Requested \/ Exists(fs0, XTokens))

C4_Witness ==
    /\ pc = "done"
    /\ "Ast" \in Requested
    /\ "Tokens" \notin Requested
    /\ IsFile(fs, XAst)
    /\ ~Exists(fs0, XAst)
    /\ ~Exists(fs, XTokens)

Fresh(f) == ~Exists(f, OutDir) \/ (Kind(f, OutDir) = "dir" /\ ~HasEntry(f, OutDir))

FilesUnder(f, d) == {p \in Paths : Under(d, p) /\ IsFile(f, p)}

\* C5: a successful emission into a fresh (absent or empty) output directory
\* leaves exactly the files of the requested kinds: module.ast, module.tokens,
\* and per contract c of the module c/c_abi.json, c/c_ir.yul and (with the
\* backend and a payload) c/c.bin; nothing else, and nothing for a name that
\* is no contract of the module.
C5_FreshTreeExact ==
    (pc = "done" /\ Fresh(fs0)) => FilesUnder(fs, OutDir) = ExpectedFiles

C5_Witness ==
    /\ pc = "done"
    /\ Fresh(fs0)
    /\ Cardinality(src) = 2
    /\ Requested = {"Abi", "Yul"}
    /\ Cardinality(FilesUnder(fs, OutDir)) = 4

\* C6 as stated: after a successful emission c/c_abi.json holds exactly the
\* contract's ABI field and c/c_ir.yul exactly the contract's Yul field.
C6_Original ==
    pc = "done" =>
        \A c \in src :
            /\ "Abi" \in Requested => fs[XAbi(c)] = File(module.contracts[c].json_abi)
            /\ "Yul" \in Requested => fs[XYul(c)] = File(module.contracts[c].yul)

\* C6 (amended): after a successful emission c/c_abi.json holds exactly the
\* ABI field of contract c, and c/c_ir.yul holds the Yul field of contract c
\* in its pretty-printed form (indentation 4), for every contract c.
C6_BodiesOfOwnContract ==
    pc = "done" =>
        \A c \in src :
            /\ "Abi" \in Requested => fs[XAbi(c)] = File(module.contracts[c].json_abi)
            /\ "Yul" \in Requested =>
                fs[XYul(c)] = File(pretty_curly_print(module.contracts[c].yul, 4))

C6_Witness ==
    /\ pc = "done"
    /\ Cardinality(src) = 2
    /\ Requested = {"Abi", "Yul"}
    /\ \A c \in src : fs[XAbi(c)] = File(JsonAbi(c))
    /\ \A c \in src : IsFile(fs, XYul(c)) /\ fs[XYul(c)] # File(YulIr(c))

BinSteps == {i \in 1..Len(log) : \E c \in AllNames : log[i].path = XBin(c)}

\* C7: c/c.bin is opened or written only when Bytecode is requested, the
\* backend is compiled in and contract c carries a payload; when Bytecode is
\* requested without the backend (hence without payload) no .bin file is
\* created, every failure of the run is a failed step on another path, and a
\* run without such a failure succeeds.
C7_BytecodeOnlyWithBackend ==
    /\ \A i \in BinSteps :
          /\ "Bytecode" \in Requested
          /\ solc
          /\ \E c \in src : log[i].path = XBin(c) /\ module.contracts[c].bytecode # None
    /\ (Entered /\ "Bytecode" \in Requested /\ ~solc) =>
          /\ \A c \in AllNames : fs[XBin(c)] = fs0[XBin(c)]
          /\ \A c \in src : module.contracts[c].bytecode = None
          /\ pc = "failed" =>
                (log # <<>> /\ ~Last(log).ok /\ Len(log) \notin BinSteps)

C7_Witness ==
    /\ pc = "done"
    /\ result = "Ok"
    /\ Requested = {"Bytecode"}
    /\ ~solc
    /\ src # {}
    /\ warned
    /\ \A c \in AllNames : ~Exists(fs, XBin(c))

LogSteps == {<<log[i].op, log[i].path>> : i \in 1..Len(log)}

\* the steps a complete run takes for the requested kinds
ExpectedSteps ==
    LET expected == ExpectedFiles
    IN  {<<"is_file", OutDir>>, <<"create_dir_all", OutDir>>}
        \cup (IF overwrite THEN {} ELSE {<<"verify", OutDir>>})
        \cup {<<"create_dir_all", XDir(c)>> : c \in src}
        \cup {<<"open", p>> : p \in expected}
        \cup {<<"write_all", p>> : p \in expected}

\* the body the module holds for an artifact path
ExpectedContent(p) ==
    IF p = XAst THEN module.fe_ast
    ELSE IF p = XTokens THEN module.fe_tokens
    ELSE IF Len(p) # Len(OutDir) + 2 \/ p[Len(OutDir) + 1] \notin src
    THEN <<"no artifact">>
    ELSE LET c == p[Len(OutDir) + 1]   \* the contract whose directory holds p
         IN  IF p = XAbi(c) THEN module.contracts[c].json_abi
             ELSE IF p = XYul(c) THEN pretty_curly_print(module.contracts[c].yul, 4)
             ELSE IF p = XBin(c) /\ module.contracts[c].bytecode # None
             THEN module.contracts[c].bytecode[1]
             ELSE <<"no artifact">>

\* C8: emission returns Ok exactly when the guard and every applicable
\* directory creation and write succeeded; the first failing step ends the
\* run with an error, so a failed step is always the last step taken and no
\* file-system step follows it.
C8_FirstFailureAborts ==
    /\ \A i \in 1..(Len(log) - 1) : log[i].ok
    /\ (log # <<>> /\ ~Last(log).ok) => (pc = "failed" /\ result \notin {"none", "Ok"})
    /\ (Entered /\ pc = "failed") => (log # <<>> /\ ~Last(log).ok)
    /\ pc = "done" =>
          /\ result = "Ok"
          /\ \A i \in 1..Len(log) : log[i].ok
          /\ LogSteps = ExpectedSteps
    /\ result = "Ok" => pc = "done"
    /\ result = "none" <=> pc \notin {"done", "failed"}

C8_Witness ==
    /\ pc = "failed"
    /\ result = "IoFailure"
    /\ Len(log) >= 5
    /\ Last(log).op = "write_all"
    /\ remaining # {}
    /\ "Yul" \in Requested
    /\ \A c \in src : ~Exists(fs, XYul(c))

\* C9: nothing is rolled back: at every point of a run, and so in the final
\* Failed state, every artifact an earlier step wrote completely is on disk
\* with its complete body, and every directory an earlier step created exists.
C9_NoRollback ==
    \A i \in 1..Len(log) :
        /\ (log[i].op = "write_all" /\ log[i].ok)
              => fs[log[i].path] = File(ExpectedContent(log[i].path))
        /\ (log[i].op = "create_dir_all" /\ log[i].ok)
              => \A q \in Ancestors(log[i].path) : Kind(fs, q) = "dir"

C9_Witness ==
    /\ pc = "failed"
    /\ ~Exists(fs0, Build)
    /\ \E c \in src :
          /\ fs[XAbi(c)] = File(JsonAbi(c))
          /\ Kind(fs, XDir(c)) = "dir"
    /\ fs[XAst] = File(FeAst)
    /\ ~Last(log).ok
    /\ Last(log).op = "open"

\* the tree a successful run leaves, from the set of requested kinds
ExpectedNode(p) ==
    IF p \in ExpectedFiles THEN File(ExpectedContent(p))
    ELSE IF p \in {Build, OutDir} \cup {XDir(c) : c \in src} THEN DirNode
    ELSE fs0[p]

\* C10: the run depends on the target list only through the set of its
\* elements: every step taken is a step the set of requested kinds calls for,
\* no step is taken twice (an artifact is written at most once however often
\* its kind is listed), and a successful run returns Ok and leaves the tree
\* that the set, the module and the initial file system determine.
C10_OnlyTheSetMatters ==
    Entered =>
        /\ LogSteps \subseteq ExpectedSteps
        /\ Cardinality(LogSteps) = Len(log)
        /\ pc = "done" =>
              /\ result = "Ok"
              /\ \A p \in Paths : fs[p] = ExpectedNode(p)

C10_Witness ==
    /\ pc = "done"
    /\ targets = <<"Abi", "Abi">>
    /\ src # {}
    /\ \A c \in src : fs[XAbi(c)] = File(JsonAbi(c))

\* the place of a step in the order of write_compiled_module
Rank(s) ==
    IF s.op = "is_file" THEN 1
    ELSE IF s.op = "verify" THEN 2
    ELSE IF s.op = "create_dir_all" /\ s.path = OutDir THEN 3
    ELSE IF s.path = XAst THEN (IF s.op = "open" THEN 4 ELSE 5)
    ELSE IF s.path = XTokens THEN (IF s.op = "open" THEN 6 ELSE 7)
    ELSE 8

\* the contract a per-contract step belongs to, and its place in the loop body
Owner(s) == s.path[3]

SubRank(s) ==
    LET c == Owner(s)
        w == IF s.op = "open" THEN 0 ELSE 1
    IN  IF s.path = XDir(c) THEN 1
        ELSE IF s.path = XAbi(c) THEN 2 + w
        ELSE IF s.path = XYul(c) THEN 4 + w
        ELSE IF s.path = XBin(c) THEN 6 + w
        ELSE 0

\* C12: a run is one pass through Validate, EmitModuleArtifacts and
\* EmitPerContractArtifacts: the file check is the first step and, with
\* overwrite off, the non-empty check the second; nothing is written before
\* both passed; module.ast comes before module.tokens and both before any
\* contract step; each contract's steps are in order and not interleaved with
\* another contract's; no step is taken twice.
C12_LinearOrder ==
    LET n == Len(log)
    IN  \* consecutive steps are in order; a contract's steps begin with the
        \* creation of its directory
        /\ \A i \in 1..(n - 1) :
              LET a == Rank(log[i])
                  b == Rank(log[i + 1])
              IN  \/ a < b /\ (b = 8 => SubRank(log[i + 1]) = 1)
                  \/ /\ a = 8
                     /\ b = 8
                     /\ IF Owner(log[i]) = Owner(log[i + 1])
                        THEN SubRank(log[i]) < SubRank(log[i + 1])
                        ELSE SubRank(log[i + 1]) = 1
        \* no step is taken twice, so no contract is returned to
        /\ Cardinality(LogSteps) = n
        \* the last step is then the furthest one: nothing but the two checks
        \* is done before both passed, and nothing is written before
        /\ LET furthest == IF n = 0 THEN 0 ELSE Rank(log[n])
           IN  /\ furthest >= 3 =>
                     /\ log[1] = Step("is_file", OutDir, TRUE)
                     /\ ~overwrite => (n > 2 /\ log[2] = Step("verify", OutDir, TRUE))
               /\ furthest < 3 => fs = fs0
               /\ pc \in {"ast", "tokens"} => furthest < 8
        /\ pc = "done" => remaining = {}

C12_Witness ==
    /\ pc = "done"
    /\ ~overwrite
    /\ Len(log) = 11
    /\ Cardinality(src) = 2
    /\ Requested = {"Ast", "Abi"} \/ Requested = {"Tokens", "Yul"}

CreatedOut == {i \in 1..Len(log) : log[i].op = "create_dir_all" /\ log[i].path = OutDir}

OpenedOk == {log[i].path : i \in {j \in 1..Len(log) : log[j].op = "open" /\ log[j].ok}}
WrittenOk ==
    {log[i].path : i \in {j \in 1..Len(log) : log[j].op = "write_all" /\ log[j].ok}}

IsPrefix(a, b) == Len(a) <= Len(b) /\ a = SubSeq(b, 1, Len(a))

\* C15: a write replaces the file: once write_output has opened a path, the
\* file there holds nothing of its old content, whether it existed before
\* (also with longer content) or was created: it is empty after the open,
\* a prefix of the new body while or after a failed write_all, and exactly
\* the new body after a successful one.
C15_WriteReplaces ==
    LET written == WrittenOk
    IN  /\ \A p \in OpenedOk :
              LET body == ExpectedContent(p)
              IN  /\ IsFile(fs, p)
                  /\ IsPrefix(fs[p].content, body)
                  /\ p \in written <=> (fs[p].content = body
                                          /\ ~(pc = "write_all" /\ call.path = p))
        /\ pc = "write_all" => fs[call.path] = File(<<>>)

C15_Witness ==
    /\ pc = "done"
    /\ \E p \in WrittenOk :
          /\ IsFile(fs0, p)
          /\ Len(fs0[p].content) > Len(fs[p].content)
    /\ \E p \in WrittenOk : ~Exists(fs0, p)

\* C19: compile_and_write reads and compiles the source before it touches
\* the output location: until compilation has succeeded no file-system step
\* is taken on the output and the file system is as it was, and a run that
\* fails there returns the read or compilation error, whatever the
\* destination holds.
C19_CompileBeforeOutput ==
    ~Entered =>
        /\ log = <<>>
        /\ fs = fs0
        /\ pc \in {"read_src", "compile", "failed"}
        /\ pc = "failed" => result \in {"IoFailure", "CompilationFailed"}

C19_Witness ==
    /\ ~Entered
    /\ pc = "failed"
    /\ result = "CompilationFailed"
    /\ IsFile(fs0, OutDir)

----------------------------------------------------------------------------
(* Claims about main *)

UnknownToken == \E i \in 1..Len(matches.emit) : matches.emit[i] \notin PossibleValues

\* C11: when any token of the emit list is no known target, the run fails
\* with UnknownTarget, whatever the other tokens are: the source is never
\* read or compiled, the output directory is not created and nothing is
\* written.
C11_UnknownTargetRefused ==
    UnknownToken =>
        /\ pc \in {"main", "failed"}
        /\ pc = "failed" => result = "UnknownTarget"
        /\ request = NoRequest
        /\ module = NoModule
        /\ log = <<>>
        /\ fs = fs0

C11_Witness ==
    /\ pc = "failed"
    /\ result = "UnknownTarget"
    /\ matches.emit = <<"abi", "wasm">>
    /\ ~Exists(fs, OutDir)

----------------------------------------------------------------------------
(* Claims about the contract loop *)

\* the steps of the log that process contract c (the creation of its directory)
Processed(c) ==
    {i \in 1..Len(log) : log[i].op = "create_dir_all" /\ log[i].path = XDir(c)}

Terminal == pc \in {"done", "failed"}

\* C13: emission terminates: every run eventually reaches exactly one of
\* Done and Failed and stays there; the loop over the contracts processes
\* each contract at most once, and in Done each contract of the module has
\* been processed exactly once.
C13_DrainTerminates ==
    /\ <>Terminal
    /\ [][Terminal => pc' = pc]_vars
    /\ [](\A c \in src : Cardinality(Processed(c)) <= 1)
    /\ [](pc = "done" => \A c \in src : Cardinality(Processed(c)) = 1)

C13_Witness ==
    /\ pc = "done"
    /\ Cardinality(src) = MaxContracts
    /\ \A c \in src : Cardinality(Processed(c)) = 1
    /\ Len(log) > 3 + 3 * MaxContracts

----------------------------------------------------------------------------
(* Claims about running the process again *)

RunNo == Len(history) + 1

\* the statement of C17 as written: recovery after an abort at any step
C17_Original ==
    (RunNo >= 2 /\ overwrite /\ Terminal /\ result # "IoFailure") =>
        /\ pc = "done"
        /\ \A p \in Paths : fs[p] = ExpectedNode(p)

\* C17: re-running with overwrite is a recovery path and is idempotent,
\* unless the destination is a regular file.  After a run of emission that
\* aborted at any step or succeeded, a later run with the same module and
\* targets, overwrite true and no I/O failure succeeds when the destination
\* is no regular file, and the tree it leaves is the tree before the first
\* run with the output directories created and exactly the artifacts of the
\* requested kinds holding the module's bodies; every further such run ends
\* with that same tree.  When the destination is a regular file the run
\* fails again with DestinationIsFile and leaves the tree as it was.
C17_RecoveryUnlessFile ==
    (RunNo >= 2 /\ overwrite /\ Terminal /\ result # "IoFailure") =>
        IF IsFile(fs0, OutDir)
        THEN result = "DestinationIsFile" /\ fs = fs0
        ELSE /\ pc = "done"
             /\ \A p \in Paths : fs[p] = ExpectedNode(p)

C17_Witness ==
    /\ RunNo = 3
    /\ history = <<"IoFailure", "Ok">>
    /\ overwrite
    /\ pc = "done"
    /\ IsFile(fs0, XAst)
    /\ fs[XAst] # fs0[XAst]
    /\ fs[OutDir \o <<"notes.txt">>] = fs0[OutDir \o <<"notes.txt">>]
    /\ Cardinality(src) = MaxContracts

\* the output directory would be listed with an entry
NonEmptyCase == "Ast" \in Requested \/ "Tokens" \in Requested \/ src # {}

XHasEntry(f) == \E p \in Paths : Len(p) = Len(OutDir) + 1 /\ Under(OutDir, p) /\ f[p].kind # "absent"

\* a first run that succeeded into a fresh directory, and a second run
\* without overwrite that reached write_compiled_module and has ended
SecondPlainRun ==
    /\ history = <<"Ok">>
    /\ Fresh(fs0)
    /\ ~overwrite
    /\ Entered
    /\ Terminal

ListingFailed == result = "IoFailure" /\ Last(log) = Step("verify", OutDir, FALSE)

====
